---- MODULE Spec2Model ----
(***************************************************************************)
(* A model of lab_77.py: the MyFile accessor (file and URL access behind   *)
(* one mode-gated interface) and the console menu loop that drives it.     *)
(*                                                                         *)
(* Text is modelled as a sequence of one-symbol strings.  A symbol is a    *)
(* character ("a", "r", ...), a control character ("CR", "LF"), a raw byte *)
(* that is not valid UTF-8 ("XFF", "X98"), a lone surrogate ("SUR") or,    *)
(* in page text, a literal lexeme of the link patterns ("http://",         *)
(* "href=", "src=", "url").                                                *)
(*                                                                         *)
(* Every method of MyFile is an operator from the receiver and the world   *)
(* (file system, handle table) to a result record                          *)
(*   [exc, text, num, opened, self, fs, open, nextH, io]                   *)
(* where exc is "None" or the class of the exception the call raises,      *)
(* opened is the handle the call opened (0: none) and io is the set of     *)
(* system calls it made ("open", "urlopen").                               *)
(***************************************************************************)
EXTENDS Naturals, Sequences, FiniteSets

(* ------------------------------ bounds -------------------------------- *)
MaxHandles == 3
MaxCalls == 3
MaxItems == 2

(* ----------------------------- strings -------------------------------- *)
UpperAlpha == <<"A","B","C","D","E","F","G","H","I","J","K","L","M",
                "N","O","P","Q","R","S","T","U","V","W","X","Y","Z">>
LowerAlpha == <<"a","b","c","d","e","f","g","h","i","j","k","l","m",
                "n","o","p","q","r","s","t","u","v","w","x","y","z">>

LowerChar(c) ==
  IF \E i \in DOMAIN UpperAlpha : UpperAlpha[i] = c
  THEN LowerAlpha[CHOOSE i \in DOMAIN UpperAlpha : UpperAlpha[i] = c]
  ELSE c

\* str.lower()
lower(s) == [i \in DOMAIN s |-> LowerChar(s[i])]

\* str.startswith(prefix)
startswith(s, prefix) ==
  /\ Len(prefix) <= Len(s)
  /\ SubSeq(s, 1, Len(prefix)) = prefix

\* All sequences over S of length at most n.
SeqsUpTo(S, n) == UNION {[1..k -> S] : k \in 0..n}

(* ---------------------------- exceptions ------------------------------ *)
\* Direct base class of each exception class the program meets; IOError is
\* Python 3's alias of OSError.
BaseOf(c) ==
  CASE c = "FileNotFoundError"  -> "IOError"
    [] c = "PermissionError"    -> "IOError"
    [] c = "IsADirectoryError"  -> "IOError"
    [] c = "TimeoutError"       -> "IOError"
    [] c = "URLError"           -> "IOError"
    [] c = "HTTPError"          -> "URLError"
    [] c = "IOError"            -> "Exception"
    [] c = "UnicodeDecodeError" -> "ValueError"
    [] c = "UnicodeEncodeError" -> "ValueError"
    [] c = "ValueError"         -> "Exception"
    [] c = "EOFError"           -> "Exception"
    [] c = "Exception"          -> "BaseException"
    [] c = "KeyboardInterrupt"  -> "BaseException"
    [] OTHER                    -> "object"

RECURSIVE IsA(_, _)
\* isinstance(e, cls) for an exception e of class c
IsA(c, cls) ==
  IF c = cls THEN TRUE
  ELSE IF c \in {"object", "None"} THEN FALSE
  ELSE IsA(BaseOf(c), cls)

(* ---------------------------- file system ----------------------------- *)
\* The state of one path: absent, a directory, a file the process has no
\* permission on, or a regular file holding raw data.
Absent == [kind |-> "absent", data |-> <<>>]
Dir == [kind |-> "dir", data |-> <<>>]
Denied == [kind |-> "denied", data |-> <<>>]
File(d) == [kind |-> "file", data |-> d]

\* The paths whose parent directory exists; every other path is absent and
\* cannot be created.
FilePaths == {<<"f">>, <<"g">>, <<"h", "_content.html">>}

Stat(fs, path) == IF path \in DOMAIN fs THEN fs[path] ELSE Absent

\* builtin open(path, flag, encoding='utf-8'): the exception it raises, or
\* "None", and the file system it leaves.
OsOpen(fs, path, flag) ==
  LET st == Stat(fs, path) IN
  IF st.kind = "denied" THEN [exc |-> "PermissionError", fs |-> fs]
  ELSE IF st.kind = "dir" THEN [exc |-> "IsADirectoryError", fs |-> fs]
  ELSE IF flag = "r" THEN
    [exc |-> IF st.kind = "absent" THEN "FileNotFoundError" ELSE "None",
     fs |-> fs]
  ELSE IF path \notin DOMAIN fs THEN [exc |-> "FileNotFoundError", fs |-> fs]
  ELSE IF flag = "w" THEN
    [exc |-> "None", fs |-> [fs EXCEPT ![path] = File(<<>>)]]
  ELSE
    [exc |-> "None",
     fs |-> [fs EXCEPT ![path] = IF st.kind = "absent" THEN File(<<>>) ELSE st]]

(* ----------------------------- text I/O ------------------------------- *)
InvalidUtf8 == {"XFF", "X98"}
Unencodable == {"SUR"}

\* os.linesep on a POSIX system
linesep == <<"LF">>

RECURSIVE WriteTranslate(_)
\* Text-mode write with newline=None: every "\n" becomes os.linesep.
WriteTranslate(s) ==
  IF s = <<>> THEN <<>>
  ELSE (IF Head(s) = "LF" THEN linesep ELSE <<Head(s)>>)
         \o WriteTranslate(Tail(s))

RECURSIVE UniversalNewlines(_)
\* Text-mode read with newline=None: "\r\n" and a lone "\r" become "\n".
UniversalNewlines(s) ==
  IF s = <<>> THEN <<>>
  ELSE IF Head(s) = "CR" THEN
    IF Len(s) >= 2 /\ s[2] = "LF"
    THEN <<"LF">> \o UniversalNewlines(Tail(Tail(s)))
    ELSE <<"LF">> \o UniversalNewlines(Tail(s))
  ELSE <<Head(s)>> \o UniversalNewlines(Tail(s))

\* file.read() of a text-mode handle: decode the data as UTF-8, then
\* translate the newlines.
FileRead(data) ==
  IF \E i \in DOMAIN data : data[i] \in InvalidUtf8
  THEN [exc |-> "UnicodeDecodeError", text |-> <<>>]
  ELSE [exc |-> "None", text |-> UniversalNewlines(data)]

\* file.write(content) of a text-mode handle: translate the newlines, then
\* encode as UTF-8; the data the handle appends to the file.
FileWrite(content) ==
  IF \E i \in DOMAIN content : content[i] \in Unencodable
  THEN [exc |-> "UnicodeEncodeError", data |-> <<>>]
  ELSE [exc |-> "None", data |-> WriteTranslate(content)]

(* ------------------------------ MyFile -------------------------------- *)
\* Mode and location strings.
S_read == <<"r","e","a","d">>
S_write == <<"w","r","i","t","e">>
S_append == <<"a","p","p","e","n","d">>
S_url == <<"u","r","l">>

valid_modes == {S_read, S_write, S_append, S_url}

url_patterns == {<<"h","t","t","p",":","/","/">>,
                 <<"h","t","t","p","s",":","/","/">>,
                 <<"f","t","p",":","/","/">>,
                 <<"f","i","l","e",":","/","/">>}

\* _is_url recognising the web schemes only
_is_url_web_only(path) ==
  \E pattern \in {<<"h","t","t","p",":","/","/">>,
                  <<"h","t","t","p","s",":","/","/">>} : startswith(path, pattern)

_is_url(path) == \E pattern \in url_patterns : startswith(path, pattern)

\* The result of a call that changes nothing in the world.
Result(exc, text, num, self, w, io) ==
  [exc |-> exc, text |-> text, num |-> num, opened |-> 0, self |-> self,
   fs |-> w.fs, open |-> w.open, nextH |-> w.nextH, io |-> io]

World(fs, open, nextH) == [fs |-> fs, open |-> open, nextH |-> nextH]

NoObject == [path |-> <<>>, mode |-> <<>>, file |-> 0]

\* MyFile.__init__(path, mode): the exception it raises and the object it
\* builds (self.file = 0 stands for None).
__init__(path, mode) ==
  LET self == [path |-> path, mode |-> lower(mode), file |-> 0] IN
  IF self.mode \notin valid_modes
  THEN [exc |-> "ValueError", self |-> NoObject]
  ELSE IF self.mode = S_url /\ ~_is_url(path)
  THEN [exc |-> "ValueError", self |-> NoObject]
  ELSE [exc |-> "None", self |-> self]

\* _open_file opening with 'a' in write mode
OpenFlag_write_appends(mode) ==
  IF mode = S_read THEN "r"
  ELSE IF mode = S_write THEN "a"
  ELSE IF mode = S_append THEN "a"
  ELSE ""

\* _open_file opening with 'w' in append mode
OpenFlag_append_truncates(mode) ==
  IF mode = S_read THEN "r"
  ELSE IF mode = S_write THEN "w"
  ELSE IF mode = S_append THEN "w"
  ELSE ""

\* The flag _open_file passes to open() in each mode; "" when it opens
\* nothing.
OpenFlag(mode) ==
  IF mode = S_read THEN "r"
  ELSE IF mode = S_write THEN "w"
  ELSE IF mode = S_append THEN "a"
  ELSE ""

\* MyFile._open_file.  The handle self.file referred to before loses its
\* last reference; when it is still open, a reference-counting build closes
\* it at once (gc = TRUE) and a tracing build leaves it open (gc = FALSE).
_open_file(self, w, gc) ==
  LET flag == OpenFlag(self.mode)
      o == OsOpen(w.fs, self.path, flag)
      h == w.nextH + 1
  IN
  IF flag = "" THEN Result("None", <<>>, 0, self, w, {})
  ELSE IF o.exc # "None" THEN Result(o.exc, <<>>, 0, self, w, {"open"})
  ELSE [exc |-> "None", text |-> <<>>, num |-> 0, opened |-> h,
        self |-> [self EXCEPT !.file = h],
        fs |-> o.fs,
        open |-> (IF gc THEN w.open \ {self.file} ELSE w.open) \cup {h},
        nextH |-> h,
        io |-> {"open"}]

\* _close_file with its test of self.file.closed inverted
_close_file_inverted(self, open) ==
  IF self.file # 0 /\ self.file \notin open THEN open \ {self.file} ELSE open

\* MyFile._close_file: the handle table it leaves.
_close_file(self, open) ==
  IF self.file # 0 /\ self.file \in open THEN open \ {self.file} ELSE open

\* MyFile.read
read(self, w, gc) ==
  IF self.mode # S_read THEN Result("ValueError", <<>>, 0, self, w, {})
  ELSE
    LET o == _open_file(self, w, gc)
        r == FileRead(Stat(o.fs, self.path).data)
        exc == IF o.exc # "None" THEN o.exc ELSE r.exc
        raised == IF exc \in {"FileNotFoundError", "PermissionError"}
                  THEN "IOError" ELSE exc
    IN [exc |-> raised,
        text |-> IF exc = "None" THEN r.text ELSE <<>>,
        num |-> 0, opened |-> o.opened, self |-> o.self, fs |-> o.fs,
        open |-> _close_file(o.self, o.open),
        nextH |-> o.nextH, io |-> o.io]

\* MyFile.write
write(self, content, w, gc) ==
  IF self.mode \notin {S_write, S_append}
  THEN Result("ValueError", <<>>, 0, self, w, {})
  ELSE
    LET o == _open_file(self, w, gc)
        e == FileWrite(content)
        exc == IF o.exc # "None" THEN o.exc ELSE e.exc
        st == Stat(o.fs, self.path)
    IN [exc |-> IF exc = "None" THEN "None" ELSE "IOError",
        text |-> <<>>,
        num |-> 0, opened |-> o.opened, self |-> o.self,
        fs |-> IF exc = "None"
               THEN [o.fs EXCEPT ![self.path] = File(st.data \o e.data)]
               ELSE o.fs,
        open |-> _close_file(o.self, o.open),
        nextH |-> o.nextH, io |-> o.io]

(* ------------------------------- URLs --------------------------------- *)
\* bytes.decode(encoding) of a response body, symbol by symbol: 0xFF and
\* 0x98 are invalid UTF-8; cp1251 maps 0xFF and leaves 0x98 undefined;
\* koi8-r and iso-8859-1 map every byte.
DecodeSym(b, encoding) ==
  IF b \notin InvalidUtf8 THEN b
  ELSE IF encoding = "utf-8" THEN "?"
  ELSE IF encoding = "cp1251" THEN (IF b = "XFF" THEN "cp1251:FF" ELSE "?")
  ELSE IF encoding = "koi8-r" THEN (IF b = "XFF" THEN "koi8:FF" ELSE "koi8:98")
  ELSE (IF b = "XFF" THEN "latin1:FF" ELSE "latin1:98")

decode(content, encoding) ==
  LET t == [i \in DOMAIN content |-> DecodeSym(content[i], encoding)] IN
  IF \E i \in DOMAIN t : t[i] = "?"
  THEN [exc |-> "UnicodeDecodeError", text |-> <<>>]
  ELSE [exc |-> "None", text |-> t]

encodings == <<"utf-8", "cp1251", "koi8-r", "iso-8859-1">>

RECURSIVE DecodeFirst(_, _)
\* The loop over encodings of read_url: the first that decodes; the
\* fallback after the loop is UTF-8 with replacement characters.
DecodeFirst(content, k) ==
  IF k > Len(encodings)
  THEN [i \in DOMAIN content |->
          IF content[i] \in InvalidUtf8 THEN "U+FFFD" ELSE content[i]]
  ELSE IF decode(content, encodings[k]).exc = "None"
  THEN decode(content, encodings[k]).text
  ELSE DecodeFirst(content, k + 1)

\* What urlopen(req, timeout=10) and response.read() give: a body, or the
\* exception the transport raises.
RespKinds == {"ok", "HTTPError", "URLError", "TimeoutError", "Exception"}

\* MyFile.read_url, for the response resp the network gives.
read_url(self, resp, w) ==
  IF self.mode # S_url THEN Result("ValueError", <<>>, 0, self, w, {})
  ELSE IF resp.kind # "ok" THEN Result("IOError", <<>>, 0, self, w, {"urlopen"})
  ELSE Result("None", DecodeFirst(resp.body, 1), 0, self, w, {"urlopen"})

(* Link patterns.  The lexemes "href=", "src=", "url" and the scheme       *)
(* "http://" / "https://" are single symbols of the page text.             *)
Quotes == {"\"", "'"}
Schemes == {"http://", "https://"}
Spaces == {" ", "LF", "CR"}

\* The first index at or after i whose symbol is in stop (Len(s)+1: none).
RunEnd(s, i, stop) ==
  IF \E j \in i..Len(s) : s[j] \in stop
  THEN CHOOSE j \in i..Len(s) :
         s[j] \in stop /\ \A k \in i..(j - 1) : s[k] \notin stop
  ELSE Len(s) + 1

At(s, i) == IF i \in DOMAIN s THEN s[i] ELSE "$"

NoMatch == [ok |-> FALSE, group |-> <<>>, end |-> 0]

\* href=["'](https?://[^"']+)["']  and  src=["'](https?://[^"']+)["']
MatchAttr(attr, s, i) ==
  LET j == RunEnd(s, i + 3, Quotes) IN
  IF /\ At(s, i) = attr
     /\ At(s, i + 1) \in Quotes
     /\ At(s, i + 2) \in Schemes
     /\ j > i + 3
     /\ At(s, j) \in Quotes
  THEN [ok |-> TRUE, group |-> SubSeq(s, i + 2, j - 1), end |-> j + 1]
  ELSE NoMatch

\* url\(["']?(https?://[^"')]+)["']?\)
MatchCss(s, i) ==
  LET b == IF At(s, i + 2) \in Quotes THEN i + 3 ELSE i + 2
      j == RunEnd(s, b + 1, Quotes \cup {")"})
      c == IF At(s, j) \in Quotes THEN j + 1 ELSE j
  IN
  IF /\ At(s, i) = "url"
     /\ At(s, i + 1) = "("
     /\ At(s, b) \in Schemes
     /\ j > b + 1
     /\ At(s, c) = ")"
  THEN [ok |-> TRUE, group |-> SubSeq(s, b, j - 1), end |-> c + 1]
  ELSE NoMatch

\* https?://[^\s<>"']+
MatchGeneral(s, i) ==
  LET j == RunEnd(s, i + 1, Spaces \cup {"<", ">"} \cup Quotes) IN
  IF At(s, i) \in Schemes /\ j > i + 1
  THEN [ok |-> TRUE, group |-> SubSeq(s, i, j - 1), end |-> j]
  ELSE NoMatch

MatchAt(pattern, s, i) ==
  CASE pattern = "href" -> MatchAttr("href=", s, i)
    [] pattern = "src" -> MatchAttr("src=", s, i)
    [] pattern = "css" -> MatchCss(s, i)
    [] pattern = "general" -> MatchGeneral(s, i)

RECURSIVE findall(_, _, _)
\* re.findall(pattern, s): the groups of the non-overlapping matches found
\* scanning from index i, as a set.
findall(pattern, s, i) ==
  IF i > Len(s) THEN {}
  ELSE LET m == MatchAt(pattern, s, i) IN
       IF m.ok THEN {m.group} \cup findall(pattern, s, m.end)
       ELSE findall(pattern, s, i + 1)

\* The set urls that count_urls builds from the page text.
FoundUrls(html_content) ==
  UNION {findall(pattern, html_content, 1) : pattern \in {"href", "src", "css"}}
    \cup findall("general", html_content, 1)

\* count_urls with its mode check inside the try block
count_urls_check_inside_try(self, resp, w) ==
  LET r == read_url(self, resp, w) IN
  IF self.mode # S_url \/ IsA(r.exc, "Exception")
  THEN Result("None", <<>>, 0, self, w, IF self.mode # S_url THEN {} ELSE r.io)
  ELSE Result("None", <<>>, Cardinality(FoundUrls(r.text)), self, w, r.io)

\* count_urls without its except clause
count_urls_propagates(self, resp, w) ==
  IF self.mode # S_url THEN Result("ValueError", <<>>, 0, self, w, {})
  ELSE
    LET r == read_url(self, resp, w) IN
    IF r.exc # "None" THEN r
    ELSE Result("None", <<>>, Cardinality(FoundUrls(r.text)), self, w, r.io)

\* MyFile.count_urls
count_urls(self, resp, w) ==
  IF self.mode # S_url THEN Result("ValueError", <<>>, 0, self, w, {})
  ELSE
    LET r == read_url(self, resp, w) IN
    IF IsA(r.exc, "Exception") THEN Result("None", <<>>, 0, self, w, r.io)
    ELSE Result("None", <<>>, Cardinality(FoundUrls(r.text)), self, w, r.io)

\* MyFile.write_url
write_url(self, filepath, resp, w, gc) ==
  IF self.mode # S_url THEN Result("ValueError", <<>>, 0, self, w, {})
  ELSE
    LET r == read_url(self, resp, w)
        file_writer == __init__(filepath, S_write)
        wr == write(file_writer.self, r.text, w, gc)
    IN
    IF IsA(r.exc, "Exception") THEN Result("IOError", <<>>, 0, self, w, r.io)
    ELSE [wr EXCEPT !.exc = IF IsA(wr.exc, "Exception") THEN "IOError" ELSE "None",
                    !.self = self,
                    !.io = r.io \cup wr.io]

\* MyFile.__enter__
__enter__(self, w, gc) ==
  IF self.mode \in {S_read, S_write, S_append}
  THEN _open_file(self, w, gc)
  ELSE Result("None", <<>>, 0, self, w, {})

\* MyFile.__exit__
__exit__(self, w) ==
  IF self.mode \in {S_read, S_write, S_append}
  THEN [Result("None", <<>>, 0, self, w, {})
          EXCEPT !.open = _close_file(self, w.open)]
  ELSE Result("None", <<>>, 0, self, w, {})

(* ======================= the accessor's life cycle ===================== *)
(* One caller that constructs MyFile objects and calls their methods, in   *)
(* and out of a with block, over a file system and a network.              *)
VARIABLES
  obj,      \* the MyFile object the caller holds (NoObject: none)
  within,   \* the caller is inside "with obj:"
  fs,       \* the file system: the state of each path of FilePaths
  open,     \* the handles that are open
  nextH,    \* the number of handles opened so far
  last,     \* the last call: its operation, arguments and outcome
  rwOpen,   \* the handles opened by read() and write() calls
  blkOpen,  \* the handles obj opened since its __enter__
  calls,    \* the calls of a round-trip scenario, in order
  served,   \* the links of the page the server serves
  pc        \* the position of the menu loop

vars == <<obj, within, fs, open, nextH, last, rwOpen, blkOpen, calls, served, pc>>

NoResp == [kind |-> "none", body |-> <<>>]

\* The record of a call of op on an object in mode, with result r.
Call(op, mode, arg, marg, resp, r) ==
  [op |-> op, mode |-> mode, arg |-> arg, marg |-> marg, resp |-> resp,
   exc |-> r.exc, text |-> r.text, num |-> r.num, opened |-> r.opened,
   io |-> r.io]

NoCall == Call("none", <<>>, <<>>, <<>>, NoResp, Result("None", <<>>, 0, NoObject, World(<<>>, {}, 0), {}))

\* Inputs of the life cycle.
LcLocations == {<<"f">>, <<"h","t","t","p",":","/","/","h">>}
LcModes == valid_modes \cup {<<"R","e","a","d">>}
LcContents == {<<"a">>, <<"SUR">>}
LcResps == {[kind |-> "ok", body |-> <<"a">>], [kind |-> "ok", body |-> <<"XFF">>]}
             \cup {[kind |-> k, body |-> <<>>] : k \in {"HTTPError", "Exception"}}
LcInitial == {Absent, Dir, Denied, File(<<>>), File(<<"a">>), File(<<"XFF">>)}

W == World(fs, open, nextH)

LcInit ==
  /\ obj = NoObject
  /\ within = FALSE
  /\ fs \in {[p \in FilePaths |-> IF p = <<"f">> THEN st ELSE Absent] : st \in LcInitial}
  /\ open = {}
  /\ nextH = 0
  /\ last = NoCall
  /\ rwOpen = {}
  /\ blkOpen = {}
  /\ calls = <<>>
  /\ served = <<>>
  /\ pc = "menu"

\* The world after a call with result r.
Apply(r) ==
  /\ fs' = r.fs
  /\ open' = r.open
  /\ nextH' = r.nextH

Opened(r) == IF r.opened = 0 THEN {} ELSE {r.opened}

\* obj = MyFile(path, mode)
Construct ==
  \E path \in LcLocations, mode \in LcModes :
    LET r == __init__(path, mode) IN
    /\ ~within
    /\ obj' = r.self
    /\ last' = [NoCall EXCEPT !.op = "__init__", !.arg = path, !.marg = mode,
                              !.exc = r.exc]
    /\ UNCHANGED <<within, fs, open, nextH, rwOpen, blkOpen, calls, served, pc>>

\* obj.read()
Read ==
  \E gc \in BOOLEAN :
    LET r == read(obj, W, gc) IN
    /\ obj # NoObject
    /\ nextH < MaxHandles
    /\ obj' = r.self
    /\ Apply(r)
    /\ last' = Call("read", obj.mode, <<>>, <<>>, NoResp, r)
    /\ rwOpen' = rwOpen \cup Opened(r)
    /\ blkOpen' = IF within THEN blkOpen \cup Opened(r) ELSE blkOpen
    /\ UNCHANGED <<within, calls, served, pc>>

\* obj.write(content)
Write ==
  \E gc \in BOOLEAN, content \in LcContents :
    LET r == write(obj, content, W, gc) IN
    /\ obj # NoObject
    /\ nextH < MaxHandles
    /\ obj' = r.self
    /\ Apply(r)
    /\ last' = Call("write", obj.mode, content, <<>>, NoResp, r)
    /\ rwOpen' = rwOpen \cup Opened(r)
    /\ blkOpen' = IF within THEN blkOpen \cup Opened(r) ELSE blkOpen
    /\ UNCHANGED <<within, calls, served, pc>>

\* obj.read_url()
ReadUrl ==
  \E resp \in LcResps :
    LET r == read_url(obj, resp, W) IN
    /\ obj # NoObject
    /\ last' = Call("read_url", obj.mode, <<>>, <<>>, resp, r)
    /\ UNCHANGED <<obj, within, fs, open, nextH, rwOpen, blkOpen, calls, served, pc>>

\* obj.count_urls()
CountUrls ==
  \E resp \in LcResps :
    LET r == count_urls(obj, resp, W) IN
    /\ obj # NoObject
    /\ last' = Call("count_urls", obj.mode, <<>>, <<>>, resp, r)
    /\ UNCHANGED <<obj, within, fs, open, nextH, rwOpen, blkOpen, calls, served, pc>>

\* obj.write_url(filepath)
WriteUrl ==
  \E gc \in BOOLEAN, resp \in LcResps, filepath \in {<<"f">>} :
    LET r == write_url(obj, filepath, resp, W, gc) IN
    /\ obj # NoObject
    /\ nextH < MaxHandles
    /\ Apply(r)
    /\ last' = Call("write_url", obj.mode, filepath, <<>>, resp, r)
    /\ UNCHANGED <<obj, within, rwOpen, blkOpen, calls, served, pc>>

\* with obj: (entering the block)
Enter ==
  \E gc \in BOOLEAN :
    LET r == __enter__(obj, W, gc) IN
    /\ obj # NoObject
    /\ ~within
    /\ nextH < MaxHandles
    /\ obj' = r.self
    /\ Apply(r)
    /\ within' = (r.exc = "None")
    /\ last' = Call("__enter__", obj.mode, <<>>, <<>>, NoResp, r)
    /\ blkOpen' = Opened(r)
    /\ UNCHANGED <<rwOpen, calls, served, pc>>

\* leaving the with block
Exit ==
  LET r == __exit__(obj, W) IN
  /\ within
  /\ Apply(r)
  /\ within' = FALSE
  /\ last' = Call("__exit__", obj.mode, <<>>, <<>>, NoResp, r)
  /\ UNCHANGED <<obj, rwOpen, blkOpen, calls, served, pc>>

Next == Construct \/ Read \/ Write \/ ReadUrl \/ CountUrls \/ WriteUrl \/ Enter \/ Exit

Spec == LcInit /\ [][Next]_vars

(* ============================ construction ============================= *)
(* MyFile(path, mode) applied to locations and mode strings of every shape. *)
CtLocations == {<<"f">>, <<>>,
                <<"h","t","t","p",":","/","/","h">>,
                <<"h","t","t","p","s",":","/","/","h">>,
                <<"f","t","p",":","/","/","h">>,
                <<"f","i","l","e",":","/","/","h">>,
                <<"H","T","T","P",":","/","/","h">>,
                <<"h","t","t","p",":","/","h">>,
                <<"w","w","w",".","h">>,
                <<"h","t","t","p",":","/","/">>}
CtModes == valid_modes \cup
             {<<"R","e","a","d">>, <<"R","E","A","D">>, <<"W","r","i","t","e">>,
              <<"A","P","P","E","N","D">>, <<"U","R","L">>, <<"U","r","l">>,
              <<"r","w">>, <<"r">>, <<>>, <<"r","e","a","d","s">>}

CtInit == LcInit

CtConstruct ==
  \E path \in CtLocations, mode \in CtModes :
    LET r == __init__(path, mode) IN
    /\ obj' = r.self
    /\ last' = [NoCall EXCEPT !.op = "__init__", !.arg = path, !.marg = mode,
                              !.exc = r.exc]
    /\ UNCHANGED <<within, fs, open, nextH, rwOpen, blkOpen, calls, served, pc>>

CtNext == CtConstruct

CtorSpec == CtInit /\ [][CtNext]_vars

(* ============================ round trips ============================== *)
(* Each call constructs its own MyFile, as file_operations does, and the   *)
(* calls of a scenario are kept in order.                                  *)
RtPaths == {<<"f">>, <<"g">>}
RtContents == {<<>>, <<"a">>, <<"CR">>, <<"LF">>}
RtInitial == {Absent, File(<<"a">>), File(<<"CR">>), File(<<"XFF">>)}

RtInit ==
  /\ obj = NoObject
  /\ within = FALSE
  /\ fs \in {[p \in FilePaths |-> IF p = <<"f">> THEN st ELSE Absent] : st \in RtInitial}
  /\ open = {}
  /\ nextH = 0
  /\ last = NoCall
  /\ rwOpen = {}
  /\ blkOpen = {}
  /\ calls = <<>>
  /\ served = <<>>
  /\ pc = "menu"

\* One entry of calls: the call, and the state of its path before it.
RtCall(op, path, mode, content, r) ==
  [op |-> op, path |-> path, mode |-> mode, content |-> content,
   exc |-> r.exc, text |-> r.text, pre |-> Stat(fs, path)]

\* MyFile(path, mode).write(content), mode being write or append
RtWrite ==
  \E path \in RtPaths, mode \in {S_write, S_append}, content \in RtContents :
    LET r == write(__init__(path, mode).self, content, W, TRUE) IN
    /\ Len(calls) < MaxCalls
    /\ Apply(r)
    /\ calls' = Append(calls, RtCall("write", path, mode, content, r))
    /\ UNCHANGED <<obj, within, last, rwOpen, blkOpen, served, pc>>

\* MyFile(path, "read").read()
RtRead ==
  \E path \in RtPaths :
    LET r == read(__init__(path, S_read).self, W, TRUE) IN
    /\ Len(calls) < MaxCalls
    /\ Apply(r)
    /\ calls' = Append(calls, RtCall("read", path, S_read, <<>>, r))
    /\ UNCHANGED <<obj, within, last, rwOpen, blkOpen, served, pc>>

RtNext == RtWrite \/ RtRead

RoundTripSpec == RtInit /\ [][RtNext]_vars

(* =============================== pages ================================= *)
(* A url-mode MyFile against a server that serves one page or fails.       *)
Forms == {"href", "src", "css", "cssq", "bare"}
Links == [form : Forms, url : {"a", "b"}]

\* The page text of one link in one of the forms.
RenderLink(l) ==
  CASE l.form = "href" -> <<"href=", "\"", "http://", l.url, "\"">>
    [] l.form = "src" -> <<"src=", "\"", "http://", l.url, "\"">>
    [] l.form = "css" -> <<"url", "(", "http://", l.url, ")">>
    [] l.form = "cssq" -> <<"url", "(", "\"", "http://", l.url, "\"", ")">>
    [] l.form = "bare" -> <<"http://", l.url>>

RECURSIVE Render(_)
\* The page text of a sequence of links, separated by spaces.
Render(ls) ==
  IF ls = <<>> THEN <<>>
  ELSE IF Len(ls) = 1 THEN RenderLink(ls[1])
  ELSE RenderLink(ls[1]) \o <<" ">> \o Render(Tail(ls))

UrlObject == __init__(<<"h","t","t","p",":","/","/","h">>, S_url).self

UrlResps == {[kind |-> "ok", body |-> Render(served)]}
              \cup {[kind |-> k, body |-> <<>>] : k \in RespKinds \ {"ok"}}

UrlInit ==
  /\ obj = UrlObject
  /\ within = FALSE
  /\ fs = [p \in FilePaths |-> Absent]
  /\ open = {}
  /\ nextH = 0
  /\ last = NoCall
  /\ rwOpen = {}
  /\ blkOpen = {}
  /\ calls = <<>>
  /\ served \in SeqsUpTo(Links, MaxItems)
  /\ pc = "menu"

\* obj.read_url()
UrlRead ==
  \E resp \in UrlResps :
    /\ last' = Call("read_url", obj.mode, <<>>, <<>>, resp, read_url(obj, resp, W))
    /\ UNCHANGED <<obj, within, fs, open, nextH, rwOpen, blkOpen, calls, served, pc>>

\* obj.count_urls()
UrlCount ==
  \E resp \in UrlResps :
    /\ last' = Call("count_urls", obj.mode, <<>>, <<>>, resp, count_urls(obj, resp, W))
    /\ UNCHANGED <<obj, within, fs, open, nextH, rwOpen, blkOpen, calls, served, pc>>

UrlNext == UrlRead \/ UrlCount

PageSpec == UrlInit /\ [][UrlNext]_vars

(* ============================== the menu =============================== *)
RECURSIVE strip(_)
\* str.strip()
strip(s) ==
  IF s = <<>> THEN s
  ELSE IF Head(s) \in Spaces THEN strip(Tail(s))
  ELSE IF s[Len(s)] \in Spaces THEN strip(SubSeq(s, 1, Len(s) - 1))
  ELSE s

RECURSIVE join(_)
\* "\n".join(lines)
join(lines) ==
  IF lines = <<>> THEN <<>>
  ELSE IF Len(lines) = 1 THEN lines[1]
  ELSE lines[1] \o <<"LF">> \o join(Tail(lines))

RECURSIVE LastOfSplit(_)
\* s.split("//")[-1]
LastOfSplit(s) ==
  IF \E i \in 1..(Len(s) - 1) : s[i] = "/" /\ s[i + 1] = "/"
  THEN LET i == CHOOSE i \in 1..(Len(s) - 1) :
                  /\ s[i] = "/" /\ s[i + 1] = "/"
                  /\ \A k \in 1..(i - 1) : ~(s[k] = "/" /\ s[k + 1] = "/")
       IN LastOfSplit(SubSeq(s, i + 2, Len(s)))
  ELSE s

\* s.split("/")[0]
FirstOfSplit(s) == SubSeq(s, 1, RunEnd(s, 1, {"/"}) - 1)

S_http == <<"h","t","t","p",":","/","/">>
S_https == <<"h","t","t","p","s",":","/","/">>

mode_map == [c \in {"1", "2", "3"} |->
               IF c = "1" THEN S_read ELSE IF c = "2" THEN S_write ELSE S_append]

\* a handler that catches the I/O failure type only
Catches_io_only(exc) == IsA(exc, "IOError")

\* "except Exception as e" of file_operations and url_operations
Catches(exc) == IsA(exc, "Exception")

\* What a menu function did: the exception that escaped it, the exception
\* it caught and printed, and the world it leaves.
Outcome(exc, r) ==
  [raised |-> IF exc # "None" /\ ~Catches(exc) THEN exc ELSE "None",
   reported |-> IF Catches(exc) THEN exc ELSE "None",
   text |-> r.text, num |-> r.num,
   fs |-> r.fs, open |-> r.open, nextH |-> r.nextH]

\* file_operations(), given the lines the user types
file_operations(file_path, mode_choice, lines, w, gc) ==
  IF mode_choice \notin DOMAIN mode_map
  THEN Outcome("None", Result("None", <<>>, 0, NoObject, w, {}))
  ELSE
    LET mode == mode_map[mode_choice]
        file_obj == __init__(strip(file_path), mode)
        content == join([i \in DOMAIN lines |-> strip(lines[i])])
        r == IF mode = S_read THEN read(file_obj.self, w, gc)
             ELSE write(file_obj.self, content, w, gc)
    IN IF file_obj.exc # "None"
       THEN Outcome(file_obj.exc, Result("None", <<>>, 0, NoObject, w, {}))
       ELSE Outcome(r.exc, r)

\* url_operations(), given the lines the user types and the response of
\* the network
url_operations(url_in, operation, save_in, resp, w, gc) ==
  LET u == strip(url_in)
      url == IF startswith(u, S_http) \/ startswith(u, S_https)
             THEN u ELSE S_https \o u
      url_obj == __init__(url, S_url)
      domain == FirstOfSplit(LastOfSplit(url))
      save_path == IF strip(save_in) = <<>>
                   THEN domain \o <<"_content.html">> ELSE strip(save_in)
      r == IF operation = "1" THEN read_url(url_obj.self, resp, w)
           ELSE IF operation = "2" THEN count_urls(url_obj.self, resp, w)
           ELSE IF operation = "3"
           THEN write_url(url_obj.self, save_path, resp, w, gc)
           ELSE Result("None", <<>>, 0, NoObject, w, {})
  IN IF url_obj.exc # "None"
     THEN Outcome(url_obj.exc, Result("None", <<>>, 0, NoObject, w, {}))
     ELSE Outcome(r.exc, r)

\* Lines the user types.
MnPaths == {<<" ", "f">>, <<"n","o">>}
MnChoices == {"1", "2", "3", "4"}
MnLines == {<<>>, <<<<"a">>, <<"a", " ">>>>}
MnResps == {[kind |-> "ok", body |-> <<"a">>],
            [kind |-> "HTTPError", body |-> <<>>],
            [kind |-> "Exception", body |-> <<>>]}
MnUrls == {<<"h">>, <<"h","t","t","p",":","/","/","h","/","p">>}
MnSaves == {<<>>, <<"f">>}
MnInitial == {Absent, Denied, File(<<"a">>), File(<<"XFF">>)}

MnInit ==
  /\ obj = NoObject
  /\ within = FALSE
  /\ fs \in {[p \in FilePaths |-> IF p = <<"f">> THEN st ELSE Absent] : st \in MnInitial}
  /\ open = {}
  /\ nextH = 0
  /\ last = NoCall
  /\ rwOpen = {}
  /\ blkOpen = {}
  /\ calls = <<>>
  /\ served = <<>>
  /\ pc = "menu"

\* pc after a menu function with outcome o: the loop goes on to the
\* "press Enter" prompt unless an exception escaped into main().
AfterCall(o) == IF o.raised = "None" THEN "pause" ELSE "crashed"

\* choice "1" of main(): file_operations()
MainFile ==
  \E file_path \in MnPaths, mode_choice \in MnChoices, lines \in MnLines :
    LET o == file_operations(file_path, mode_choice, lines, W, TRUE) IN
    /\ pc = "menu"
    /\ nextH < MaxHandles
    /\ Apply(o)
    /\ last' = [NoCall EXCEPT !.op = "file_operations", !.arg = file_path,
                              !.marg = <<mode_choice>>, !.exc = o.reported,
                              !.text = o.text]
    /\ pc' = AfterCall(o)
    /\ UNCHANGED <<obj, within, rwOpen, blkOpen, calls, served>>

\* choice "2" of main(): url_operations()
MainUrl ==
  \E url_in \in MnUrls, operation \in MnChoices, save_in \in MnSaves,
     resp \in MnResps :
    LET o == url_operations(url_in, operation, save_in, resp, W, TRUE) IN
    /\ pc = "menu"
    /\ nextH < MaxHandles
    /\ Apply(o)
    /\ last' = [NoCall EXCEPT !.op = "url_operations", !.arg = url_in,
                              !.marg = <<operation>>, !.exc = o.reported,
                              !.text = o.text, !.num = o.num, !.resp = resp]
    /\ pc' = AfterCall(o)
    /\ UNCHANGED <<obj, within, rwOpen, blkOpen, calls, served>>

\* choice "3" of main(): leave the loop
MainExit ==
  /\ pc = "menu"
  /\ last' = [NoCall EXCEPT !.op = "exit"]
  /\ pc' = "exited"
  /\ UNCHANGED <<obj, within, fs, open, nextH, rwOpen, blkOpen, calls, served>>

\* any other choice of main(): an error message
MainOther ==
  /\ pc = "menu"
  /\ last' = [NoCall EXCEPT !.op = "invalid"]
  /\ pc' = "pause"
  /\ UNCHANGED <<obj, within, fs, open, nextH, rwOpen, blkOpen, calls, served>>

\* input("press Enter to continue") at the end of an iteration
MainPause ==
  /\ pc = "pause"
  /\ pc' = "menu"
  /\ UNCHANGED <<obj, within, fs, open, nextH, last, rwOpen, blkOpen, calls, served>>

MnNext == MainFile \/ MainUrl \/ MainExit \/ MainOther \/ MainPause

MenuSpec == MnInit /\ [][MnNext]_vars

(* =============================== claims ================================ *)

\* C1: an operation that does not match the mode of its object (read
\* outside read; write outside write/append; read_url, count_urls and
\* write_url outside url) raises ValueError before it opens a file or asks
\* the network; count_urls on a non-url object raises, it does not return 0.
C1_ModeMismatchFailsFast ==
  LET matches == CASE last.op = "read" -> last.mode = S_read
                   [] last.op = "write" -> last.mode \in {S_write, S_append}
                   [] OTHER -> last.mode = S_url
  IN (last.op \in {"read", "write", "read_url", "count_urls", "write_url"} /\ ~matches)
       => (last.exc = "ValueError" /\ last.io = {} /\ last.opened = 0)

C1_Witness ==
  /\ last.op = "count_urls"
  /\ last.mode = S_read
  /\ last.exc = "ValueError"

\* C2: no handle opened by a read() or write() call is open once the call
\* has returned or raised, whatever the exit path.
C2_ReadWriteReleaseHandles == rwOpen \cap open = {}

C2_Witness ==
  /\ last.op = "read"
  /\ last.exc = "UnicodeDecodeError"
  /\ last.opened \in rwOpen

\* C3 as stated: construction succeeds for read, write, append and url with
\* a location of the matching shape, raises ValueError for any other mode
\* value, and in url mode raises whenever the location starts with none of
\* http://, https://, ftp://, file://.
C3_AnyOtherModeFails ==
  LET schemes == {<<"h","t","t","p",":","/","/">>, <<"h","t","t","p","s",":","/","/">>,
                  <<"f","t","p",":","/","/">>, <<"f","i","l","e",":","/","/">>}
      shaped == \E sc \in schemes : startswith(last.arg, sc)
      named == last.marg \in {S_read, S_write, S_append, S_url}
  IN last.op = "__init__" =>
       /\ (named /\ (last.marg = S_url => shaped)) => last.exc = "None"
       /\ ~named => last.exc = "ValueError"
       /\ (last.marg = S_url /\ ~shaped) => last.exc = "ValueError"

\* C3 amended: the mode is compared without regard to case: construction
\* succeeds when the lower-cased mode is one of the four and the location
\* has the matching shape, and raises ValueError otherwise.
C3_ConstructionValidates ==
  LET schemes == {<<"h","t","t","p",":","/","/">>, <<"h","t","t","p","s",":","/","/">>,
                  <<"f","t","p",":","/","/">>, <<"f","i","l","e",":","/","/">>}
      shaped == \E sc \in schemes : startswith(last.arg, sc)
      m == lower(last.marg)
      named == m \in {S_read, S_write, S_append, S_url}
  IN last.op = "__init__" =>
       /\ (named /\ (m = S_url => shaped)) => last.exc = "None"
       /\ ~named => last.exc = "ValueError"
       /\ (m = S_url /\ ~shaped) => last.exc = "ValueError"

C3_Witness ==
  /\ last.op = "__init__"
  /\ last.marg = <<"U","R","L">>
  /\ startswith(last.arg, <<"f","t","p",":","/","/">>)
  /\ last.exc = "None"
  /\ obj.mode = S_url

\* C4 as stated: for any content C and any prior contents, a successful
\* write(C) in write mode followed by read() of the same path returns C.
C4_RoundTripAnyContent ==
  \A k \in 1..(Len(calls) - 1) :
    ( /\ calls[k].op = "write" /\ calls[k].mode = S_write /\ calls[k].exc = "None"
      /\ calls[k + 1].op = "read" /\ calls[k + 1].path = calls[k].path )
    => (calls[k + 1].exc = "None" /\ calls[k + 1].text = calls[k].content)

\* C4 amended: the same for any content C without a carriage return.
C4_RoundTripWithoutCR ==
  \A k \in 1..(Len(calls) - 1) :
    ( /\ calls[k].op = "write" /\ calls[k].mode = S_write /\ calls[k].exc = "None"
      /\ \A i \in DOMAIN calls[k].content : calls[k].content[i] # "CR"
      /\ calls[k + 1].op = "read" /\ calls[k + 1].path = calls[k].path )
    => (calls[k + 1].exc = "None" /\ calls[k + 1].text = calls[k].content)

C4_Witness ==
  \E k \in 1..(Len(calls) - 1) :
    /\ calls[k].op = "write" /\ calls[k].mode = S_write /\ calls[k].exc = "None"
    /\ calls[k].pre.kind = "file" /\ calls[k].pre.data # <<>>
    /\ calls[k].content = <<"LF">>
    /\ calls[k + 1].op = "read" /\ calls[k + 1].path = calls[k].path
    /\ calls[k + 1].text = calls[k].content

\* C5 as stated: appending C1 then C2 to a path yields C1 + C2 on a
\* subsequent read().
C5_AppendYieldsC1C2 ==
  \A k \in 1..(Len(calls) - 2) :
    ( /\ calls[k].op = "write" /\ calls[k].mode = S_append /\ calls[k].exc = "None"
      /\ calls[k + 1].op = "write" /\ calls[k + 1].mode = S_append
      /\ calls[k + 1].exc = "None" /\ calls[k + 1].path = calls[k].path
      /\ calls[k + 2].op = "read" /\ calls[k + 2].path = calls[k].path )
    => ( /\ calls[k + 2].exc = "None"
         /\ calls[k + 2].text = calls[k].content \o calls[k + 1].content )

\* C5 amended: the read yields the contents the file had before the two
\* appends followed by C1 + C2, when the prior contents are valid UTF-8 and
\* neither they nor C1 nor C2 holds a carriage return.
C5_AppendYieldsPriorC1C2 ==
  \A k \in 1..(Len(calls) - 2) :
    LET whole == calls[k].pre.data \o calls[k].content \o calls[k + 1].content IN
    ( /\ calls[k].op = "write" /\ calls[k].mode = S_append /\ calls[k].exc = "None"
      /\ calls[k + 1].op = "write" /\ calls[k + 1].mode = S_append
      /\ calls[k + 1].exc = "None" /\ calls[k + 1].path = calls[k].path
      /\ calls[k + 2].op = "read" /\ calls[k + 2].path = calls[k].path
      /\ \A i \in DOMAIN whole : whole[i] \notin {"CR", "XFF", "X98"} )
    => (calls[k + 2].exc = "None" /\ calls[k + 2].text = whole)

C5_Witness ==
  \E k \in 1..(Len(calls) - 2) :
    /\ calls[k].op = "write" /\ calls[k].mode = S_append /\ calls[k].exc = "None"
    /\ calls[k + 1].op = "write" /\ calls[k + 1].mode = S_append
    /\ calls[k + 1].exc = "None" /\ calls[k + 1].path = calls[k].path
    /\ calls[k + 2].op = "read" /\ calls[k + 2].path = calls[k].path
    /\ calls[k].pre.data = <<"a">>
    /\ calls[k].content = <<"a">> /\ calls[k + 1].content = <<"LF">>
    /\ calls[k + 2].text = <<"a", "a", "LF">>

\* C6: on a url-mode object count_urls never raises; when the fetch fails
\* (HTTP error, transport error, timeout, anything else) it returns 0, and
\* read_url raises under the same condition.
C6_CountSwallowsFailures ==
  /\ (last.op = "count_urls" /\ last.mode = S_url) => last.exc = "None"
  /\ (last.op = "count_urls" /\ last.mode = S_url /\ last.resp.kind # "ok")
       => last.num = 0
  /\ (last.op = "read_url" /\ last.mode = S_url /\ last.resp.kind # "ok")
       => last.exc = "IOError"

C6_Witness ==
  /\ last.op = "count_urls"
  /\ last.resp.kind = "HTTPError"
  /\ last.exc = "None"
  /\ last.num = 0
  /\ served # <<>>

\* C7: count_urls returns the number of distinct URLs of the page: a URL
\* counts once, however often and in whichever form (href, src, url(...),
\* bare) it occurs.
C7_CountsDistinctUrls ==
  (last.op = "count_urls" /\ last.resp.kind = "ok")
    => last.num = Cardinality({served[i].url : i \in DOMAIN served})

\* C8: every failure of read, write, read_url or write_url on an object of
\* the matching mode is an IOError, never another type and never the
\* ValueError of the mode mismatch.
C8_FailuresAreIOError ==
  LET matches == CASE last.op = "read" -> last.mode = S_read
                   [] last.op = "write" -> last.mode \in {S_write, S_append}
                   [] OTHER -> last.mode = S_url
  IN (last.op \in {"read", "write", "read_url", "write_url"} /\ matches
        /\ last.exc # "None")
       => (IsA(last.exc, "IOError") /\ ~IsA(last.exc, "ValueError"))

\* C9: a failing accessor operation never ends the menu loop: the failure is
\* reported and the loop goes on to the top-level menu; the loop ends only
\* by the exit choice at the top-level menu.
C9_FailuresKeepLoopRunning ==
  /\ pc \in {"menu", "pause", "exited"}
  /\ pc = "exited" => last.op = "exit"
  /\ last.exc # "None" => pc \in {"pause", "menu"}

C9_Witness ==
  /\ last.op = "file_operations"
  /\ last.exc = "UnicodeDecodeError"
  /\ pc = "menu"

\* C10: once __exit__ has returned, every handle the object opened since
\* its __enter__ is closed, whatever read() and write() calls were made
\* inside the block.
C10_ExitClosesBlockHandles ==
  last.op = "__exit__" => blkOpen \cap open = {}

====
